---- MODULE Spec2Model ----
(***************************************************************************)
(* sane-rss: the ingestion / dedup / retention pipeline.                   *)
(*                                                                         *)
(*   storage.rs  FeedStorageInner  feeds, known_items, max_items           *)
(*   feed.rs     FeedFetcher::fetch_feed, item_to_guid                     *)
(*   llm.rs      LlmFilter::should_accept_item, call_anthropic_api         *)
(*   filter.rs   LLMFilter::accepts, call_llm                              *)
(*   poller.rs   FeedPoller::initial_fetch, start, poll_all_feeds          *)
(*                                                                         *)
(*   main.rs     main: load, spawn, select!, save                          *)
(*   server.rs   serve_feed                                                *)
(*                                                                         *)
(* Eleven specifications share the variables:                              *)
(*   Spec          the poller (priming pass, then the steady-state loop)   *)
(*   SpecStore     add_channel / store_filtered_item applied one by one    *)
(*   SpecGate      the decision gate applied to drawn rule sets, replies   *)
(*   SpecMain      main from start to exit, and the next start             *)
(*   SpecIdentity  identity derivation applied to drawn items              *)
(*   SpecKnown     is_known / is_new_item / record_as_known, one by one    *)
(*   SpecTimer     the interval of start and the calls of poll_all_feeds   *)
(*   SpecServe     serve_feed against a writer of the stored feeds         *)
(*   SpecRestart   the poller started on a loaded known-items snapshot     *)
(*   SpecFanOut    initial_fetch over configurations of many feeds         *)
(*   SpecIsolation the storage calls applied feed by feed                  *)
(***************************************************************************)
EXTENDS Integers, Sequences, FiniteSets, TLC

\* ---------------------------------------------------------------- bounds
\* steady-state cycles explored
MaxCycles == 2
\* longest item list a fetch of "tech" returns
MaxFetch == 3
\* longest item list a fetch of "news" returns
MaxFetchNews == 1
\* max_items_per_feed of the poller's configuration
Capacity == 2
\* largest max_items drawn in SpecStore
MaxM == 3
\* longest run of appends in SpecStore
MaxAppend == 5
\* process runs (start to exit) explored in SpecMain
MaxRuns == 2
\* identity derivations of one item in SpecIdentity
MaxCalls == 2
\* latest clock reading in SpecIdentity
MaxClock == 2
\* most feeds a configuration of SpecFanOut lists
MaxFeeds == 6
\* latest time in SpecTimer
MaxTime == 6
\* poll_all_feeds calls in SpecTimer
MaxPolls == 3
\* appends in SpecServe
MaxWrites == 3

\* ---------------------------------------------------------------- values
\* Option::None of an item field, a filter list or a feed title
None == "<none>"

FeedNames == {"tech", "news"}

\* rss::Item, reduced to the fields identity derivation reads
i1 == [guid |-> "g1", link |-> "l1", title |-> "t1", pub_date |-> "d1"]
i2 == [guid |-> "g2", link |-> None, title |-> None, pub_date |-> None]
i3 == [guid |-> None, link |-> "l3", title |-> "t3", pub_date |-> None]
i4 == [guid |-> None, link |-> None, title |-> "t4", pub_date |-> None]
\* an item with a description only: no guid, no link, no title
i5 == [guid |-> None, link |-> None, title |-> None, pub_date |-> None]

Items == {i1, i2, i3, i4, i5}

\* an item carrying at least one of guid, link, title
HasIdentityField(item) ==
    item.guid # None \/ item.link # None \/ item.title # None

\* ------------------------------------------------------- item identity
\* variant: a missing pub_date is replaced by the clock
item_to_guid_clock_date(item, clock) ==
    IF item.guid # None THEN item.guid
    ELSE IF item.link # None THEN item.link
    ELSE IF item.title # None
         THEN item.title \o "-" \o
              (IF item.pub_date # None THEN item.pub_date ELSE ToString(clock))
    ELSE "unknown-" \o ToString(clock)

\* feed.rs item_to_guid: guid, else link, else title-date, else a value
\* derived from the clock (chrono::Utc::now().timestamp())
item_to_guid(item, clock) ==
    IF item.guid # None THEN item.guid
    ELSE IF item.link # None THEN item.link
    ELSE IF item.title # None
         THEN item.title \o "-" \o
              (IF item.pub_date # None THEN item.pub_date ELSE "no-date")
    ELSE "unknown-" \o ToString(clock)

\* what a call that may panic comes back with
Returned(guid) == [ok |-> TRUE, guid |-> guid]
Panic == [ok |-> FALSE, guid |-> None]

\* storage.rs FeedStorageInner::item_to_guid: guid, else link, else
\* title-date, else unreachable!(), which panics
storage_item_to_guid(item) ==
    IF item.guid # None THEN Returned(item.guid)
    ELSE IF item.link # None THEN Returned(item.link)
    ELSE IF item.title # None
         THEN Returned(item.title \o "-" \o
                  (IF item.pub_date # None THEN item.pub_date ELSE "no-date"))
    ELSE Panic

\* ------------------------------------------------------------- storage
\* variant: the overflow is taken from the newest end
RECURSIVE EvictNewest(_, _)
EvictNewest(items, cap) ==
    IF Len(items) > cap
    THEN EvictNewest(SubSeq(items, 1, Len(items) - 1), cap)
    ELSE items

\* VecDeque::pop_front repeated while the length exceeds max_items
RECURSIVE EvictOldest(_, _)
EvictOldest(items, cap) ==
    IF Len(items) > cap THEN EvictOldest(Tail(items), cap) ELSE items

\* storage.rs StoredFeed
StoredFeed(title, description, items) ==
    [title |-> title, description |-> description, items |-> items]

\* variant: the item is pushed and nothing is evicted
store_filtered_item_unbounded(fs, cap, feed_name, item) ==
    [fs EXCEPT ![feed_name].items = Append(fs[feed_name].items, item)]

\* FeedStorageInner::store_filtered_item, for a feed_name present in fs
\* (an absent feed_name is the expect() panic, taken by the caller)
store_filtered_item(fs, cap, feed_name, item) ==
    [fs EXCEPT ![feed_name].items =
        EvictOldest(Append(fs[feed_name].items, item), cap)]

\* variant: a channel is created only when a title comes with it
add_channel_titled_only(fs, feed_name, title, description) ==
    IF feed_name \notin DOMAIN fs /\ title # None
    THEN (feed_name :> StoredFeed(title, description, <<>>)) @@ fs
    ELSE fs

\* variant: an existing feed takes the new title and description
add_channel_latest_wins(fs, feed_name, title, description) ==
    IF feed_name \notin DOMAIN fs
    THEN (feed_name :> StoredFeed(title, description, <<>>)) @@ fs
    ELSE [fs EXCEPT ![feed_name].title = title,
                    ![feed_name].description = description]

\* FeedStorageInner::add_channel
add_channel(fs, feed_name, title, description) ==
    IF feed_name \notin DOMAIN fs
    THEN (feed_name :> StoredFeed(title, description, <<>>)) @@ fs
    ELSE fs

\* what a lookup that may panic comes back with
Answer(b) == [ok |-> TRUE, known |-> b]
NoAnswer == [ok |-> FALSE, known |-> FALSE]

\* variant: the feed's entry is created by the lookup (entry().or_default())
is_known_or_default(known, feed_name, item) ==
    LET g == storage_item_to_guid(item)
        k == IF feed_name \in DOMAIN known THEN known
             ELSE (feed_name :> {}) @@ known
    IN  IF ~g.ok THEN [answer |-> NoAnswer, known_items |-> known]
        ELSE [answer |-> Answer(g.guid \in k[feed_name]), known_items |-> k]

\* FeedStorageInner::is_known(&self, feed_name, item): the answer, and the
\* known-item map as the call leaves it
is_known(known, feed_name, item) ==
    LET g == storage_item_to_guid(item)
    IN  IF ~g.ok THEN [answer |-> NoAnswer, known_items |-> known]
        ELSE IF feed_name \in DOMAIN known
        THEN [answer |-> Answer(g.guid \in known[feed_name]),
              known_items |-> known]
        ELSE [answer |-> Answer(FALSE), known_items |-> known]

\* variant: the guid goes into the record of every feed that has one
record_as_known_everywhere(known, feed_name, item) ==
    LET g == storage_item_to_guid(item)
        k == IF feed_name \in DOMAIN known THEN known
             ELSE (feed_name :> {}) @@ known
    IN  IF ~g.ok THEN [answer |-> NoAnswer, known_items |-> known]
        ELSE [answer |-> Answer(g.guid \notin k[feed_name]),
              known_items |-> [f \in DOMAIN k |-> k[f] \cup {g.guid}]]

\* variant: the feed's record is replaced by the one guid
record_as_known_replace(known, feed_name, item) ==
    LET g == storage_item_to_guid(item)
    IN  IF ~g.ok THEN [answer |-> NoAnswer, known_items |-> known]
        ELSE IF feed_name \in DOMAIN known
        THEN [answer |-> Answer(g.guid \notin known[feed_name]),
              known_items |-> [known EXCEPT ![feed_name] = {g.guid}]]
        ELSE [answer |-> Answer(TRUE),
              known_items |-> (feed_name :> {g.guid}) @@ known]

\* FeedStorageInner::record_as_known: entry().or_default().insert(guid),
\* which answers whether the guid was not there before
record_as_known(known, feed_name, item) ==
    LET g == storage_item_to_guid(item)
    IN  IF ~g.ok THEN [answer |-> NoAnswer, known_items |-> known]
        ELSE IF feed_name \in DOMAIN known
        THEN [answer |-> Answer(g.guid \notin known[feed_name]),
              known_items |-> [known EXCEPT ![feed_name] = @ \cup {g.guid}]]
        ELSE [answer |-> Answer(TRUE),
              known_items |-> (feed_name :> {g.guid}) @@ known]

\* variant: every guid is reported new
is_new_item_always(known, feed_name, guid) == TRUE

\* is_new_item: true unless the feed has a record holding the guid
is_new_item(known, feed_name, guid) ==
    IF feed_name \in DOMAIN known THEN guid \notin known[feed_name] ELSE TRUE

\* variant: the guid is recorded only when the feed has no entry yet
record_seen_item_vacant_only(known, feed_name, guid) ==
    IF feed_name \in DOMAIN known
    THEN known
    ELSE (feed_name :> {guid}) @@ known

\* record_seen_item: HashSet insert into the feed's entry, created on demand
record_seen_item(known, feed_name, guid) ==
    IF feed_name \in DOMAIN known
    THEN [known EXCEPT ![feed_name] = @ \cup {guid}]
    ELSE (feed_name :> {guid}) @@ known

\* the storage as store_items finds it
Storage(fs, known) == [feeds |-> fs, known_items |-> known, panicked |-> FALSE]

\* store_items(feed_name, items, title, description, max_items), as called by
\* the poller: ensure the feed, then append and record every item in order;
\* an append to a feed that is not there is the expect() panic of
\* store_filtered_item, which ends the call
RECURSIVE store_items(_, _, _, _, _, _, _)
store_items(st, feed_name, items, title, description, cap, clock) ==
    LET fs0 == add_channel(st.feeds, feed_name, title, description)
    IN  IF items = <<>>
        THEN [feeds |-> fs0, known_items |-> st.known_items, panicked |-> FALSE]
        ELSE IF feed_name \notin DOMAIN fs0
        THEN [feeds |-> fs0, known_items |-> st.known_items, panicked |-> TRUE]
        ELSE store_items(
                [feeds |-> store_filtered_item(fs0, cap, feed_name, Head(items)),
                 known_items |-> record_seen_item(st.known_items, feed_name,
                                     item_to_guid(Head(items), clock)),
                 panicked |-> FALSE],
                feed_name, Tail(items), title, description, cap, clock)

\* ------------------------------------------------------- decision gate
\* Option<Vec<String>>
NoVec == [present |-> FALSE, v |-> <<>>]
SomeVec(v) == [present |-> TRUE, v |-> v]
\* Option<Filters>
NoFilters == [present |-> FALSE, accept |-> NoVec, reject |-> NoVec]
SomeFilters(a, r) == [present |-> TRUE, accept |-> a, reject |-> r]

AcceptVecs == {NoVec, SomeVec(<<>>), SomeVec(<<"rust">>)}
RejectVecs == {NoVec, SomeVec(<<>>), SomeVec(<<"ads">>)}
FilterOptions ==
    {NoFilters} \cup {SomeFilters(a, r) : a \in AcceptVecs, r \in RejectVecs}

\* what the remote decision call can come back with
LlmFailures ==
    {"transport_error", "timeout", "status_error", "body_not_json",
     "no_text", "text_not_json"}
LlmReplies ==
    {[kind |-> k, accept |-> FALSE, reject |-> FALSE] : k \in LlmFailures}
    \cup {[kind |-> "ok", accept |-> a, reject |-> r] : a, r \in BOOLEAN}

\* LlmFilter::call_anthropic_api / LLMFilter::call_llm: Ok(FilterResponse)
\* only when the request, the status, the body and the text all succeed
call_anthropic_api(reply) ==
    IF reply.kind = "ok"
    THEN [ok |-> TRUE, accept |-> reply.accept, reject |-> reply.reject]
    ELSE [ok |-> FALSE, accept |-> FALSE, reject |-> FALSE]

\* the topic lists should_accept_item merges from Option<Filters>
accept_topics(global_filters, local_filters) ==
    (IF global_filters.present /\ global_filters.accept.present
        THEN global_filters.accept.v ELSE <<>>)
    \o (IF local_filters.present /\ local_filters.accept.present
        THEN local_filters.accept.v ELSE <<>>)

reject_topics(global_filters, local_filters) ==
    (IF global_filters.present /\ global_filters.reject.present
        THEN global_filters.reject.v ELSE <<>>)
    \o (IF local_filters.present /\ local_filters.reject.present
        THEN local_filters.reject.v ELSE <<>>)

\* variant: a reply with reject = true rejects
verdict_reject_wins(response) ==
    IF response.ok THEN ~response.reject ELSE TRUE

\* variant: a failed call rejects
verdict_fail_closed(response) ==
    response.ok /\ (response.accept \/ ~response.reject)

\* the verdict on a reply: Ok => accept || !reject, Err => true
verdict(response) ==
    IF response.ok THEN response.accept \/ ~response.reject ELSE TRUE

\* variant: the remote call is made whatever the topic lists hold
should_accept_item_no_fast_path(global_filters, local_filters, reply) ==
    [accept |-> verdict(call_anthropic_api(reply)), called |-> TRUE]

\* LlmFilter::should_accept_item; called = the remote call was made
should_accept_item(global_filters, local_filters, reply) ==
    IF accept_topics(global_filters, local_filters) = <<>>
       /\ reject_topics(global_filters, local_filters) = <<>>
    THEN [accept |-> TRUE, called |-> FALSE]
    ELSE [accept |-> verdict(call_anthropic_api(reply)), called |-> TRUE]

\* LLMFilter::accepts (filter.rs): the filters are plain vectors there
accepts(global_filters, feed_filters, reply) ==
    LET acc == global_filters.accept.v \o feed_filters.accept.v
        rej == global_filters.reject.v \o feed_filters.reject.v
    IN  IF acc = <<>> /\ rej = <<>>
        THEN [accept |-> TRUE, called |-> FALSE]
        ELSE [accept |-> verdict(call_anthropic_api(reply)), called |-> TRUE]

\* ---------------------------------------------------------- fetch gate
RECURSIVE DistinctSeqs(_, _)
\* the sequences of pairwise distinct elements of S, up to length n
DistinctSeqs(S, n) ==
    IF n = 0 THEN {<<>>}
    ELSE LET shorter == DistinctSeqs(S, n - 1)
         IN  shorter \cup
             UNION {{Append(q, x) : x \in S \ {q[k] : k \in 1..Len(q)}} :
                        q \in {r \in shorter : Len(r) = n - 1}}

\* what a fetch of one feed can come back with
FetchFailures == {"send_error", "read_error", "parse_error"}

\* the order in which an upstream lists its items
ItemOrder == <<i1, i2, i3, i4, i5>>
Pos(item) == CHOOSE k \in 1..Len(ItemOrder) : ItemOrder[k] = item

\* the upstream of "tech" carries i1..i4, that of "news" the item without
\* guid, link and title
UpstreamItems(feed_name) ==
    IF feed_name = "tech" THEN {i1, i2, i3, i4} ELSE {i5}
UpstreamLen(feed_name) == IF feed_name = "tech" THEN MaxFetch ELSE MaxFetchNews

\* the item lists a fetch of the feed can return: any selection of the
\* upstream's items, in upstream order
UpstreamLists(feed_name) ==
    {q \in DistinctSeqs(UpstreamItems(feed_name), UpstreamLen(feed_name)) :
        \A k \in 1..(Len(q) - 1) : Pos(q[k]) < Pos(q[k + 1])}

ChannelTitle(feed_name) == "Title of " \o feed_name

FetchReplies(feed_name) ==
    {[kind |-> k, title |-> None, description |-> None, items |-> <<>>] :
        k \in FetchFailures}
    \cup {[kind |-> "ok", title |-> ChannelTitle(feed_name),
           description |-> "About " \o feed_name, items |-> q] :
            q \in UpstreamLists(feed_name)}

\* FeedFetcher::fetch_feed: Some(channel) only when the request, the body read
\* and the parse all succeed
fetch_feed(reply) ==
    IF reply.kind = "ok"
    THEN [some |-> TRUE, title |-> reply.title,
          description |-> reply.description, items |-> reply.items]
    ELSE [some |-> FALSE, title |-> None, description |-> None, items |-> <<>>]

\* ------------------------------------------------------ serving surface
\* serve_feed: 200 with the stored title, description and items (a missing
\* title or description is replaced by a text made from the feed name), 404
\* for a feed that is not stored
NotFound == [status |-> 404, title |-> None, description |-> None,
             items |-> <<>>]

serve_feed(fs, feed_name) ==
    IF feed_name \in DOMAIN fs
    THEN [status |-> 200,
          title |-> IF fs[feed_name].title # None THEN fs[feed_name].title
                    ELSE "[F] " \o feed_name,
          description |-> IF fs[feed_name].description # None
                          THEN fs[feed_name].description
                          ELSE "Filtered RSS feed for " \o feed_name,
          items |-> fs[feed_name].items]
    ELSE NotFound

\* ----------------------------------------------------------- persistence
\* the known-items file: missing, zero bytes long, holding something that is
\* not the JSON of a map, not readable, or the JSON of a map from feed name
\* to an array of guids
AbsentFile == [kind |-> "absent", map |-> <<>>]
EmptyFile == [kind |-> "empty", map |-> <<>>]
MalformedFile == [kind |-> "malformed", map |-> <<>>]
UnreadableFile == [kind |-> "unreadable", map |-> <<>>]
JsonFile(map) == [kind |-> "json", map |-> map]

Elements(q) == {q[k] : k \in 1..Len(q)}

\* the orders in which a HashSet can be iterated
Orderings(S) ==
    {q \in DistinctSeqs(S, Cardinality(S)) : Len(q) = Cardinality(S)}

\* serde_json::to_string(&*seen): one array per feed, its elements in the
\* iteration order of the feed's HashSet, whichever that is
to_string(known) ==
    {m \in [DOMAIN known -> UNION {Orderings(known[f]) : f \in DOMAIN known}] :
        \A f \in DOMAIN known : m[f] \in Orderings(known[f])}

\* serde_json::from_str into HashMap<String, HashSet<String>>: each array is
\* collected into a set
from_str(map) == [f \in DOMAIN map |-> Elements(map[f])]

\* how std::fs::write can end: done, the file could not be opened, or the
\* write stopped after the file was truncated, with nothing or a part written
WriteOutcomes == {"ok", "open_failed", "truncated", "partial"}

\* variant: the file is written without the entries
save_seen_guids_blank(known, disk, json, outcome) ==
    IF outcome = "ok" THEN [ok |-> TRUE, disk |-> JsonFile(<<>>)]
    ELSE IF outcome = "open_failed" THEN [ok |-> FALSE, disk |-> disk]
    ELSE IF outcome = "truncated" THEN [ok |-> FALSE, disk |-> EmptyFile]
    ELSE [ok |-> FALSE, disk |-> MalformedFile]

\* save_seen_guids: serialise the map and write the file; json is the
\* serialisation to_string produced
save_seen_guids(known, disk, json, outcome) ==
    IF outcome = "ok" THEN [ok |-> TRUE, disk |-> JsonFile(json)]
    ELSE IF outcome = "open_failed" THEN [ok |-> FALSE, disk |-> disk]
    ELSE IF outcome = "truncated" THEN [ok |-> FALSE, disk |-> EmptyFile]
    ELSE [ok |-> FALSE, disk |-> MalformedFile]

LoadOk(known) == [ok |-> TRUE, err |-> None, known |-> known]
LoadErr(err, known) == [ok |-> FALSE, err |-> err, known |-> known]

\* variant: the loaded map is dropped
load_seen_guids_keep(known, disk) ==
    IF disk.kind \in {"absent", "empty", "json"} THEN LoadOk(known)
    ELSE IF disk.kind = "unreadable" THEN LoadErr("io", known)
    ELSE LoadErr("deserialize", known)

\* variant: a missing file is an error
load_seen_guids_strict(known, disk) ==
    IF disk.kind = "json" THEN LoadOk(from_str(disk.map))
    ELSE IF disk.kind = "empty" THEN LoadOk(known)
    ELSE IF disk.kind \in {"absent", "unreadable"} THEN LoadErr("io", known)
    ELSE LoadErr("deserialize", known)

\* variant: content that does not parse counts as no content
load_seen_guids_lenient(known, disk) ==
    IF disk.kind = "json" THEN LoadOk(from_str(disk.map))
    ELSE IF disk.kind \in {"absent", "empty", "malformed"} THEN LoadOk(known)
    ELSE LoadErr("io", known)

\* load_seen_guids: a missing file and an empty file are Ok and leave the map
\* alone, another read error and a parse error are returned, a parsed map
\* replaces the map
load_seen_guids(known, disk) ==
    IF disk.kind = "json" THEN LoadOk(from_str(disk.map))
    ELSE IF disk.kind \in {"absent", "empty"} THEN LoadOk(known)
    ELSE IF disk.kind = "unreadable" THEN LoadErr("io", known)
    ELSE LoadErr("deserialize", known)

\* ---------------------------------------------------------------- state
VARIABLES
    feeds,          \* FeedStorageInner.feeds: feed name -> StoredFeed
    known_items,    \* FeedStorageInner.known_items: feed name -> set of guids
    max_items,      \* FeedStorageInner.max_items
    global_filters, \* Config.global_filters
    feed_filters,   \* Config.feeds[name].filters
    feed_order,     \* the iteration order of the Config.feeds map
    pc,             \* where the running task stands
    prime,          \* initial_fetch: the state of each feed's fetch task
    init_result,    \* what initial_fetch returned
    fi,             \* poll_all_feeds: index of the current feed in feed_order
    pending,        \* poll_all_feeds: items of the current feed still to visit
    cycle,          \* steady-state cycles started so far
    now,            \* the clock read by item_to_guid
    last,           \* history: the last step of the poller
    rejected,       \* history: <<feed, item, cycle>> rejected in this cycle
    attempted,      \* history: feeds fetched in the current cycle
    failed,         \* history: feeds whose fetch failed in the current cycle
    scen,           \* history: progress through the two-cycle "tech" scenario
    appended,       \* history (SpecStore): every item appended, in order
    panicked,       \* the expect() of store_filtered_item fired
    gate_in,        \* SpecGate: the drawn filters and reply
    gate_out,       \* SpecGate: what the two gates answered
    disk,           \* the known-items file
    main_pc,        \* where main stands
    lock,           \* how main holds the RwLock of the storage
    io,             \* the disk I/O main is in
    exit_result,    \* what main returned
    poller_started, \* the poller task was spawned
    server_started, \* the server task was spawned
    runs,           \* process runs started so far
    trigger_known,  \* history: known_items when select! completed
    saved,          \* history: known_items as the last complete save wrote it
    id_in,          \* SpecIdentity: the drawn item
    id_out,         \* SpecIdentity: what each derivation returned, in order
    pass_count,     \* history: items stored so far in the current feed's pass
    deadline,       \* SpecTimer: when the interval fires next
    loop_start,     \* SpecTimer: when start() created the interval
    poll_starts,    \* SpecTimer: when each poll_all_feeds call began
    poll_ends,      \* SpecTimer: when each poll_all_feeds call returned
    running,        \* SpecTimer: poll_all_feeds calls in progress
    srv_pc,         \* SpecServe: where serve_feed stands
    srv_feed,       \* SpecServe: the feed name of the request
    srv_view,       \* SpecServe: what serve_feed has read so far
    srv_snap,       \* history: feeds when serve_feed took its guard
    wr_pc,          \* SpecServe: where the writer stands
    wr_feed,        \* SpecServe: the feed the writer is appending to
    writes,         \* SpecServe: appends made so far
    lookup          \* SpecKnown: the last lookup and what it answered

storeVars == <<feeds, known_items>>
cfgVars == <<max_items, global_filters, feed_filters, feed_order>>
pollVars == <<pc, prime, init_result, fi, pending, cycle, now>>
histVars == <<last, rejected, attempted, failed, scen, pass_count>>
mainVars == <<disk, main_pc, lock, io, exit_result, poller_started,
              server_started, runs, trigger_known, saved>>
idVars == <<id_in, id_out>>
timerVars == <<deadline, loop_start, poll_starts, poll_ends, running>>
serveVars == <<srv_pc, srv_feed, srv_view, srv_snap, wr_pc, wr_feed, writes>>
extraVars == <<timerVars, serveVars, lookup>>
sideRest == <<appended, gate_in, gate_out, mainVars, idVars, extraVars>>
sideVars == <<panicked, sideRest>>
vars == <<storeVars, cfgVars, pollVars, histVars, sideVars>>

Event(op, feed_name, item, accept, called) ==
    [op |-> op, feed |-> feed_name, item |-> item,
     accept |-> accept, called |-> called]
NoEvent == Event("none", "", <<>>, FALSE, FALSE)

NoGate == [accept |-> FALSE, called |-> FALSE]
NoGateOut == [should_accept_item |-> NoGate, accepts |-> NoGate]
NoGateIn == [global |-> NoFilters, local |-> NoFilters,
             reply |-> [kind |-> "ok", accept |-> FALSE, reject |-> FALSE]]

\* the state every specification shares outside its own part
IdleHistory ==
    /\ last = NoEvent
    /\ rejected = {}
    /\ attempted = {}
    /\ failed = {}
    /\ scen = "idle"
    /\ pass_count = 0

NotSaved == [valid |-> FALSE, known |-> <<>>]

\* no process around the part under study: no file, no lock taken
IdleMain ==
    /\ disk = AbsentFile
    /\ main_pc = "none"
    /\ lock = "free"
    /\ io = "none"
    /\ exit_result = "running"
    /\ poller_started = FALSE
    /\ server_started = FALSE
    /\ runs = 0
    /\ trigger_known = <<>>
    /\ saved = NotSaved

IdleIdentity ==
    /\ id_in = i1
    /\ id_out = <<>>

NoView == [status |-> 0, title |-> None, description |-> None, items |-> <<>>]
NoLookup == [op |-> "none", feed |-> "", item |-> i1, id |-> None,
             answer |-> [ok |-> FALSE, known |-> FALSE]]

IdleTimer ==
    /\ deadline = 0
    /\ loop_start = 0
    /\ poll_starts = <<>>
    /\ poll_ends = <<>>
    /\ running = 0

IdleServe ==
    /\ srv_pc = "none"
    /\ srv_feed = ""
    /\ srv_view = NoView
    /\ srv_snap = <<>>
    /\ wr_pc = "none"
    /\ wr_feed = ""
    /\ writes = 0

IdleExtras ==
    /\ IdleTimer
    /\ IdleServe
    /\ lookup = NoLookup

IdleSide ==
    /\ appended = <<>>
    /\ panicked = FALSE
    /\ gate_in = NoGateIn
    /\ gate_out = NoGateOut
    /\ IdleMain
    /\ IdleIdentity
    /\ IdleExtras

\* ------------------------------------------- the two-cycle scenario
\* Follows feed "tech" through: a cycle fetching <<i1, i2, i3>>, all new,
\* with i1 and i3 accepted and i2 rejected ("c1_done" at its end), then a
\* cycle fetching <<i2, i4>> with i4 accepted ("c2_done" at its end);
\* "c2_i2_decided" when the gate is asked about i2 in the second cycle,
\* "off" when the run leaves the scenario.
ScenOnFetch(s, feed_name, ok, items, known, clock) ==
    IF feed_name # "tech" THEN s
    ELSE IF s = "c2_i2_decided" THEN s
    ELSE IF s = "idle"
         THEN IF /\ ok
                 /\ items = <<i1, i2, i3>>
                 /\ \A k \in 1..3 :
                        is_new_item(known, feed_name, item_to_guid(items[k], clock))
              THEN "c1_fetched" ELSE "idle"
    ELSE IF s = "c1_done" /\ ok /\ items = <<i2, i4>> THEN "c2_fetched"
    ELSE "off"

ScenOnItem(s, feed_name, item, decided, accept, is_last) ==
    IF feed_name # "tech" THEN s
    ELSE IF s = "c1_fetched"
         THEN IF decided /\ (accept <=> item \in {i1, i3})
              THEN (IF is_last THEN "c1_done" ELSE s)
              ELSE "off"
    ELSE IF s = "c2_fetched"
         THEN IF item = i2
              THEN (IF decided THEN "c2_i2_decided" ELSE s)
              ELSE IF decided /\ accept THEN "c2_done" ELSE "off"
    ELSE s

\* ------------------------------------------------------------ the poller
\* buffer_unordered(5)
FanOut == 5

InFlight == {f \in DOMAIN prime : prime[f] = "fetching"}

\* variant: every task of the stream is started at once
stream_can_start_unbounded(in_flight) == TRUE

\* buffer_unordered(5): the stream's next task is started while fewer than
\* FanOut are in flight
stream_can_start(in_flight) == in_flight < FanOut

Init ==
    /\ feeds = <<>>
    /\ known_items = <<>>
    /\ max_items = Capacity
    /\ global_filters = NoFilters
    /\ feed_filters = [f \in FeedNames |->
            IF f = "tech" THEN SomeFilters(NoVec, SomeVec(<<"ads">>))
            ELSE NoFilters]
    /\ feed_order = <<"tech", "news">>
    /\ pc = "priming"
    /\ prime = [f \in FeedNames |-> "todo"]
    /\ init_result = "none"
    /\ fi = 1
    /\ pending = <<>>
    /\ cycle = 0
    /\ now = 0
    /\ IdleHistory
    /\ IdleSide

\* initial_fetch: the stream starts the next feed's task while fewer than
\* FanOut are in flight
PrimeStart(f) ==
    /\ pc = "priming"
    /\ prime[f] = "todo"
    /\ stream_can_start(Cardinality(InFlight))
    /\ prime' = [prime EXCEPT ![f] = "fetching"]
    /\ UNCHANGED <<storeVars, cfgVars, pc, init_result, fi, pending, cycle, now,
                   histVars, sideVars>>

\* initial_fetch: one feed's task completes: Some(channel) is stored whole,
\* with the channel's title and description, None is an Err
PrimeFinish(f, reply) ==
    /\ pc = "priming"
    /\ prime[f] = "fetching"
    /\ LET ch == fetch_feed(reply)
           st == store_items(Storage(feeds, known_items),
                             f, ch.items, ch.title, ch.description,
                             max_items, now)
       IN  IF ch.some
           THEN /\ feeds' = st.feeds
                /\ known_items' = st.known_items
                /\ prime' = [prime EXCEPT ![f] = "ok"]
                /\ last' = Event("prime_ok", f, <<>>, FALSE, FALSE)
                /\ panicked' = st.panicked
                /\ pc' = IF st.panicked THEN "panicked" ELSE pc
           ELSE /\ UNCHANGED <<storeVars, panicked, pc>>
                /\ prime' = [prime EXCEPT ![f] = "err"]
                /\ last' = Event("prime_fail", f, <<>>, FALSE, FALSE)
    /\ UNCHANGED <<cfgVars, init_result, fi, pending, cycle, now,
                   rejected, attempted, failed, scen, pass_count, sideRest>>

\* variant: the stream is abandoned at the first Err
FirstTaskFailed(p) ==
    \/ \A f \in DOMAIN p : p[f] \in {"ok", "err"}
    \/ \E f \in DOMAIN p : p[f] = "err"

\* initial_fetch: collect() returns once every task of the stream completed
AllTasksCompleted(p) == \A f \in DOMAIN p : p[f] \in {"ok", "err"}

\* variant: the results of the tasks are dropped
results_to_result_dropped(p) == "ok"

\* initial_fetch: `for result in results { result?; } Ok(())`
results_to_result(p) ==
    IF \E f \in DOMAIN p : p[f] = "err" THEN "err" ELSE "ok"

\* initial_fetch: every task has completed; the first Err, if any, is returned
InitialFetchReturn ==
    /\ pc = "priming"
    /\ AllTasksCompleted(prime)
    /\ init_result' = results_to_result(prime)
    /\ pc' = "start"
    /\ UNCHANGED <<storeVars, cfgVars, prime, fi, pending, cycle, now,
                   histVars, sideVars>>

\* start: the first tick completes immediately and is skipped
StartLoop ==
    /\ pc = "start"
    /\ pc' = "tick"
    /\ UNCHANGED <<storeVars, cfgVars, prime, init_result, fi, pending, cycle,
                   now, histVars, sideVars>>

\* start: interval.tick() fires one interval later and a cycle begins
Tick ==
    /\ pc = "tick"
    /\ cycle < MaxCycles
    /\ cycle' = cycle + 1
    /\ now' = now + 1
    /\ fi' = 1
    /\ pc' = "fetch"
    /\ attempted' = {}
    /\ failed' = {}
    /\ last' = Event("tick", "", <<>>, FALSE, FALSE)
    /\ rejected' = {}
    /\ pass_count' = 0
    /\ UNCHANGED <<storeVars, cfgVars, prime, init_result, pending,
                   scen, sideVars>>

\* poll_all_feeds: the for loop moves to the next feed, or the cycle ends
NextFeed(i, order) ==
    IF i < Len(order) THEN [pc |-> "fetch", fi |-> i + 1]
    ELSE [pc |-> "tick", fi |-> 1]

\* variant: a failed fetch ends the cycle
OnFetchFailureAbort(i, order) == [pc |-> "tick", fi |-> 1]

\* poll_all_feeds: fetch_feed returned None: the if-let body is skipped
OnFetchFailure(i, order) == NextFeed(i, order)

\* poll_all_feeds: fetch the current feed
PollFetch(reply) ==
    /\ pc = "fetch"
    /\ LET f == feed_order[fi]
           ch == fetch_feed(reply)
           nxt == IF ~ch.some THEN OnFetchFailure(fi, feed_order)
                  ELSE IF ch.items = <<>> THEN NextFeed(fi, feed_order)
                  ELSE [pc |-> "items", fi |-> fi]
       IN  /\ reply \in FetchReplies(f)
           /\ attempted' = attempted \cup {f}
           /\ failed' = IF ch.some THEN failed ELSE failed \cup {f}
           /\ pending' = ch.items
           /\ pc' = nxt.pc
           /\ fi' = nxt.fi
           /\ last' = Event(IF ch.some THEN "fetch_ok" ELSE "fetch_fail",
                            f, <<>>, FALSE, FALSE)
           /\ scen' = ScenOnFetch(scen, f, ch.some, ch.items, known_items, now)
           /\ pass_count' = 0
    /\ UNCHANGED <<storeVars, cfgVars, prime, init_result, cycle, now,
                   rejected, sideVars>>

\* variant: the items are taken from the back
TakeLast(q) == [item |-> q[Len(q)], rest |-> SubSeq(q, 1, Len(q) - 1)]

\* poll_all_feeds: `for item in items` takes the items front to back
TakeNext(q) == [item |-> Head(q), rest |-> Tail(q)]

\* poll_all_feeds: the body of `for item in items` for one item
PollItem(reply) ==
    /\ pc = "items"
    /\ LET f == feed_order[fi]
           nx == TakeNext(pending)
           item == nx.item
           guid == item_to_guid(item, now)
           fresh == is_new_item(known_items, f, guid)
           gate == should_accept_item(global_filters, feed_filters[f], reply)
           st == store_items(Storage(feeds, known_items),
                             f, <<item>>, None, None, max_items, now)
           stored == fresh /\ gate.accept
           nxt == IF stored /\ st.panicked THEN [pc |-> "panicked", fi |-> fi]
                  ELSE IF nx.rest = <<>> THEN NextFeed(fi, feed_order)
                  ELSE [pc |-> "items", fi |-> fi]
       IN  /\ IF stored
              THEN /\ feeds' = st.feeds
                   /\ known_items' = st.known_items
              ELSE UNCHANGED storeVars
           /\ panicked' = (stored /\ st.panicked)
           /\ pass_count' = IF stored THEN pass_count + 1 ELSE pass_count
           /\ rejected' = IF fresh /\ ~gate.accept
                          THEN rejected \cup {<<f, item, cycle>>} ELSE rejected
           /\ last' = IF fresh
                      THEN Event("decide", f, <<item>>, gate.accept, gate.called)
                      ELSE Event("skip", f, <<item>>, FALSE, FALSE)
           /\ scen' = ScenOnItem(scen, f, item, fresh, gate.accept,
                                 nx.rest = <<>>)
           /\ pending' = nx.rest
           /\ pc' = nxt.pc
           /\ fi' = nxt.fi
    /\ UNCHANGED <<cfgVars, prime, init_result, cycle, now, attempted, failed,
                   sideRest>>

Next ==
    \/ \E f \in FeedNames : PrimeStart(f)
    \/ \E f \in FeedNames : \E reply \in FetchReplies(f) : PrimeFinish(f, reply)
    \/ InitialFetchReturn
    \/ StartLoop
    \/ Tick
    \/ \E reply \in UNION {FetchReplies(f) : f \in FeedNames} : PollFetch(reply)
    \/ \E reply \in LlmReplies : PollItem(reply)

Spec == Init /\ [][Next]_vars

\* the shape of the state
TypeOK ==
    /\ DOMAIN feeds \subseteq FeedNames
    /\ DOMAIN known_items \subseteq FeedNames
    /\ pc \in {"priming", "start", "tick", "fetch", "items", "panicked"}
    /\ cycle \in 0..MaxCycles
    /\ fi \in 1..Len(feed_order)

\* ------------------------------------------------- the store, directly
StoreItems == {i1, i2}
StoreTitles == {"Old title", "New title"}

InitStore ==
    /\ feeds = <<>>
    /\ known_items = <<>>
    /\ max_items \in 0..MaxM
    /\ global_filters = NoFilters
    /\ feed_filters = [f \in FeedNames |-> NoFilters]
    /\ feed_order = <<"tech", "news">>
    /\ pc = "store"
    /\ prime = [f \in FeedNames |-> "todo"]
    /\ init_result = "none"
    /\ fi = 1
    /\ pending = <<>>
    /\ cycle = 0
    /\ now = 0
    /\ IdleHistory
    /\ appended = [f \in FeedNames |-> <<>>]
    /\ panicked = FALSE
    /\ gate_in = NoGateIn
    /\ gate_out = NoGateOut
    /\ IdleMain
    /\ IdleIdentity
    /\ IdleExtras

Appends == Len(appended["tech"]) + Len(appended["news"])

\* a caller runs add_channel
AddChannel(f, title) ==
    /\ pc = "store"
    /\ feeds' = add_channel(feeds, f, title, "About " \o title)
    /\ last' = ("title" :> title) @@ Event("add_channel", f, <<>>, FALSE, FALSE)
    /\ UNCHANGED <<known_items, cfgVars, pollVars, rejected, attempted, failed,
                   scen, pass_count, sideVars>>

\* a caller runs store_filtered_item; on a feed that is not there the
\* expect() panics
StoreFilteredItem(f, item) ==
    /\ pc = "store"
    /\ Appends < MaxAppend
    /\ IF f \in DOMAIN feeds
       THEN /\ feeds' = store_filtered_item(feeds, max_items, f, item)
            /\ appended' = [appended EXCEPT ![f] = Append(@, item)]
            /\ UNCHANGED <<pc, panicked>>
       ELSE /\ panicked' = TRUE
            /\ pc' = "panicked"
            /\ UNCHANGED <<feeds, appended>>
    /\ last' = Event("store_filtered_item", f, <<item>>, FALSE, FALSE)
    /\ UNCHANGED <<known_items, cfgVars, prime, init_result, fi, pending, cycle,
                   now, rejected, attempted, failed, scen, pass_count, gate_in,
                   gate_out,
                   mainVars, idVars,
                   extraVars>>

NextStore ==
    \/ \E f \in FeedNames : \E title \in StoreTitles : AddChannel(f, title)
    \/ \E f \in FeedNames : \E item \in StoreItems : StoreFilteredItem(f, item)

SpecStore == InitStore /\ [][NextStore]_vars

\* ------------------------------------------ the decision gate, directly
InitGate ==
    /\ feeds = <<>>
    /\ known_items = <<>>
    /\ max_items = Capacity
    /\ global_filters = NoFilters
    /\ feed_filters = [f \in FeedNames |-> NoFilters]
    /\ feed_order = <<"tech", "news">>
    /\ pc = "gate"
    /\ prime = [f \in FeedNames |-> "todo"]
    /\ init_result = "none"
    /\ fi = 1
    /\ pending = <<>>
    /\ cycle = 0
    /\ now = 0
    /\ IdleHistory
    /\ appended = <<>>
    /\ panicked = FALSE
    /\ gate_in \in [global : FilterOptions, local : FilterOptions,
                    reply : LlmReplies]
    /\ gate_out = NoGateOut
    /\ IdleMain
    /\ IdleIdentity
    /\ IdleExtras

\* both gates are asked about one item, under the drawn filters and reply
ApplyGate ==
    /\ pc = "gate"
    /\ gate_out' =
         [should_accept_item |->
              should_accept_item(gate_in.global, gate_in.local, gate_in.reply),
          accepts |-> accepts(gate_in.global, gate_in.local, gate_in.reply)]
    /\ pc' = "gate_done"
    /\ UNCHANGED <<storeVars, cfgVars, prime, init_result, fi, pending, cycle,
                   now, histVars, appended, panicked, gate_in, mainVars,
                   idVars,
                   extraVars>>

NextGate == ApplyGate

SpecGate == InitGate /\ [][NextGate]_vars

\* ------------------------------------------------- main, start to exit
\* the known-items file a process can find when it starts
InitialFiles ==
    {AbsentFile, EmptyFile, MalformedFile, UnreadableFile,
     JsonFile(("tech" :> <<"g1", "g2">>) @@ ("news" :> <<>>))}

\* the items the poller task stores while main waits
MainItems == {i1, i2}

SuspensionPoints == {"load", "save"}

InitMain ==
    /\ feeds = <<>>
    /\ known_items = <<>>
    /\ max_items = Capacity
    /\ global_filters = NoFilters
    /\ feed_filters = [f \in FeedNames |-> NoFilters]
    /\ feed_order = <<"tech", "news">>
    /\ pc = "main"
    /\ prime = [f \in FeedNames |-> "todo"]
    /\ init_result = "none"
    /\ fi = 1
    /\ pending = <<>>
    /\ cycle = 0
    /\ now = 0
    /\ IdleHistory
    /\ appended = <<>>
    /\ panicked = FALSE
    /\ gate_in = NoGateIn
    /\ gate_out = NoGateOut
    /\ IdleIdentity
    /\ IdleExtras
    /\ disk \in InitialFiles
    /\ main_pc = "start"
    /\ lock = "free"
    /\ io = "none"
    /\ exit_result = "running"
    /\ poller_started = FALSE
    /\ server_started = FALSE
    /\ runs = 1
    /\ trigger_known = <<>>
    /\ saved = NotSaved

\* main: storage.write().await returns the write guard and
\* load_known_items() starts reading the file under it
LoadKnownItemsBegin ==
    /\ main_pc = "start"
    /\ lock = "free"
    /\ lock' = "write"
    /\ io' = "load"
    /\ main_pc' = "loading"
    /\ UNCHANGED <<storeVars, cfgVars, pollVars, histVars, appended, panicked,
                   gate_in, gate_out, idVars, disk, exit_result,
                   poller_started, server_started, runs, trigger_known, saved,
                   extraVars>>

\* main: load_known_items() returns, the guard is dropped, and `?` returns
\* an Err from main
LoadKnownItemsEnd ==
    /\ main_pc = "loading"
    /\ LET r == load_seen_guids(known_items, disk)
       IN  /\ known_items' = r.known
           /\ main_pc' = IF r.ok THEN "loaded" ELSE "exited"
           /\ exit_result' = IF r.ok THEN exit_result
                             ELSE r.err \o "_error"
    /\ lock' = "free"
    /\ io' = "none"
    /\ UNCHANGED <<feeds, cfgVars, pollVars, histVars, appended, panicked,
                   gate_in, gate_out, idVars, disk, poller_started,
                   server_started, runs, trigger_known, saved,
                   extraVars>>

\* main: tokio::spawn of the poller task
SpawnPoller ==
    /\ main_pc = "loaded"
    /\ poller_started' = TRUE
    /\ main_pc' = "bind"
    /\ UNCHANGED <<storeVars, cfgVars, pollVars, histVars, appended, panicked,
                   gate_in, gate_out, idVars, disk, lock, io, exit_result,
                   server_started, runs, trigger_known, saved,
                   extraVars>>

\* main: TcpListener::bind; on Ok the server task is spawned, an Err is
\* returned from main by `?`
BindAndServe(bound) ==
    /\ main_pc = "bind"
    /\ IF bound
       THEN /\ server_started' = TRUE
            /\ main_pc' = "serving"
            /\ UNCHANGED exit_result
       ELSE /\ main_pc' = "exited"
            /\ exit_result' = "bind_error"
            /\ UNCHANGED server_started
    /\ UNCHANGED <<storeVars, cfgVars, pollVars, histVars, appended, panicked,
                   gate_in, gate_out, idVars, disk, lock, io, poller_started,
                   runs, trigger_known, saved,
                   extraVars>>

\* the poller task, as main sees it: poll_all_feeds stores an item that
\* is_new_item reported new (the storage takes and drops its lock inside)
PollerStores(f, item) ==
    /\ poller_started
    /\ main_pc # "exited"
    /\ lock = "free"
    /\ is_new_item(known_items, f, item_to_guid(item, now))
    /\ ~panicked
    /\ LET st == store_items(Storage(feeds, known_items),
                             f, <<item>>, None, None, max_items, now)
       IN  /\ feeds' = st.feeds
           /\ known_items' = st.known_items
           /\ panicked' = st.panicked
    /\ UNCHANGED <<cfgVars, pollVars, histVars, sideRest>>

\* main: select! completes, on the stop signal or on the end of the server
\* task or of the poller task
Shutdown(trigger) ==
    /\ main_pc = "serving"
    /\ main_pc' = "save"
    /\ trigger_known' = known_items
    /\ UNCHANGED <<storeVars, cfgVars, pollVars, histVars, appended, panicked,
                   gate_in, gate_out, idVars, disk, lock, io, exit_result,
                   poller_started, server_started, runs, saved,
                   extraVars>>

\* main: storage.read().await returns the read guard and save_known_items()
\* starts writing the file under it
SaveKnownItemsBegin ==
    /\ main_pc = "save"
    /\ lock = "free"
    /\ lock' = "read"
    /\ io' = "save"
    /\ main_pc' = "saving"
    /\ UNCHANGED <<storeVars, cfgVars, pollVars, histVars, appended, panicked,
                   gate_in, gate_out, idVars, disk, exit_result,
                   poller_started, server_started, runs, trigger_known, saved,
                   extraVars>>

\* main: save_known_items() returns, the guard is dropped, `?` returns an
\* Err from main, otherwise main returns Ok(())
SaveKnownItemsEnd(json, outcome) ==
    /\ main_pc = "saving"
    /\ LET r == save_seen_guids(known_items, disk, json, outcome)
       IN  /\ disk' = r.disk
           /\ exit_result' = IF r.ok THEN "ok" ELSE "save_error"
           /\ saved' = IF r.ok THEN [valid |-> TRUE, known |-> known_items]
                       ELSE NotSaved
    /\ lock' = "free"
    /\ io' = "none"
    /\ main_pc' = "exited"
    /\ UNCHANGED <<storeVars, cfgVars, pollVars, histVars, appended, panicked,
                   gate_in, gate_out, idVars, poller_started, server_started,
                   runs, trigger_known,
                   extraVars>>

\* the process is killed while save_known_items() is in std::fs::write: the
\* file is as the write left it at that point, and nothing more happens
KilledDuringSave(json, outcome) ==
    /\ main_pc = "saving"
    /\ LET r == save_seen_guids(known_items, disk, json, outcome)
       IN  /\ disk' = r.disk
           /\ saved' = IF r.ok THEN [valid |-> TRUE, known |-> known_items]
                       ELSE NotSaved
    /\ exit_result' = "killed"
    /\ lock' = "free"
    /\ io' = "none"
    /\ main_pc' = "exited"
    /\ UNCHANGED <<storeVars, cfgVars, pollVars, histVars, appended, panicked,
                   gate_in, gate_out, idVars, poller_started, server_started,
                   runs, trigger_known,
                   extraVars>>

\* the program is started again: main constructs a fresh FeedStorage
StartAgain ==
    /\ main_pc = "exited"
    /\ runs < MaxRuns
    /\ runs' = runs + 1
    /\ feeds' = <<>>
    /\ known_items' = <<>>
    /\ main_pc' = "start"
    /\ exit_result' = "running"
    /\ poller_started' = FALSE
    /\ server_started' = FALSE
    /\ trigger_known' = <<>>
    /\ UNCHANGED <<cfgVars, pollVars, histVars, appended, panicked, gate_in,
                   gate_out, idVars, disk, lock, io, saved,
                   extraVars>>

ShutdownTriggers == {"signal", "server_ended", "poller_ended"}

NextMain ==
    \/ LoadKnownItemsBegin
    \/ LoadKnownItemsEnd
    \/ SpawnPoller
    \/ \E bound \in BOOLEAN : BindAndServe(bound)
    \/ \E f \in FeedNames : \E item \in MainItems : PollerStores(f, item)
    \/ \E trigger \in ShutdownTriggers : Shutdown(trigger)
    \/ SaveKnownItemsBegin
    \/ \E outcome \in WriteOutcomes : \E json \in to_string(known_items) :
          SaveKnownItemsEnd(json, outcome)
    \/ \E outcome \in WriteOutcomes : \E json \in to_string(known_items) :
          KilledDuringSave(json, outcome)
    \/ StartAgain

SpecMain == InitMain /\ [][NextMain]_vars

\* ------------------------------------------- item identity, directly
IdentityItems ==
    [guid : {None, "g1"}, link : {None, "l1"}, title : {None, "t1", "t2"},
     pub_date : {None, "d1"}]

InitIdentity ==
    /\ feeds = <<>>
    /\ known_items = <<>>
    /\ max_items = Capacity
    /\ global_filters = NoFilters
    /\ feed_filters = [f \in FeedNames |-> NoFilters]
    /\ feed_order = <<"tech", "news">>
    /\ pc = "identity"
    /\ prime = [f \in FeedNames |-> "todo"]
    /\ init_result = "none"
    /\ fi = 1
    /\ pending = <<>>
    /\ cycle = 0
    /\ now = 0
    /\ IdleHistory
    /\ appended = <<>>
    /\ panicked = FALSE
    /\ gate_in = NoGateIn
    /\ gate_out = NoGateOut
    /\ IdleMain
    /\ IdleExtras
    /\ id_in \in IdentityItems
    /\ id_out = <<>>

\* the identity of the drawn item is derived, by feed.rs and by storage.rs
Identify ==
    /\ pc = "identity"
    /\ Len(id_out) < MaxCalls
    /\ id_out' = Append(id_out,
                    [clock |-> now,
                     feed |-> Returned(item_to_guid(id_in, now)),
                     storage |-> storage_item_to_guid(id_in)])
    /\ UNCHANGED <<storeVars, cfgVars, pollVars, histVars, appended, panicked,
                   gate_in, gate_out, mainVars, id_in,
                   extraVars>>

\* time passes between two derivations
ClockAdvance ==
    /\ pc = "identity"
    /\ now < MaxClock
    /\ now' = now + 1
    /\ UNCHANGED <<storeVars, cfgVars, pc, prime, init_result, fi, pending,
                   cycle, histVars, sideVars>>

NextIdentity ==
    \/ Identify
    \/ ClockAdvance

SpecIdentity == InitIdentity /\ [][NextIdentity]_vars

\* ------------------------------------- the known-item lookups, directly
KnownItems == {i1, i2, i4, i5}

Lookups == {"is_known", "is_new_item"}

InitKnown ==
    /\ feeds = <<>>
    /\ known_items = <<>>
    /\ max_items = Capacity
    /\ global_filters = NoFilters
    /\ feed_filters = [f \in FeedNames |-> NoFilters]
    /\ feed_order = <<"tech", "news">>
    /\ pc = "known"
    /\ prime = [f \in FeedNames |-> "todo"]
    /\ init_result = "none"
    /\ fi = 1
    /\ pending = <<>>
    /\ cycle = 0
    /\ now = 0
    /\ IdleHistory
    /\ IdleSide

\* a caller runs record_as_known
RecordAsKnown(f, item) ==
    /\ pc = "known"
    /\ LET r == record_as_known(known_items, f, item)
       IN  /\ known_items' = r.known_items
           /\ lookup' = [op |-> "record_as_known", feed |-> f, item |-> item,
                         id |-> storage_item_to_guid(item).guid,
                         answer |-> r.answer]
    /\ UNCHANGED <<feeds, cfgVars, pollVars, histVars, panicked, appended,
                   gate_in, gate_out, mainVars, idVars, timerVars, serveVars>>

\* a caller runs is_known
IsKnown(f, item) ==
    /\ pc = "known"
    /\ LET r == is_known(known_items, f, item)
       IN  /\ known_items' = r.known_items
           /\ lookup' = [op |-> "is_known", feed |-> f, item |-> item,
                         id |-> storage_item_to_guid(item).guid,
                         answer |-> r.answer]
    /\ UNCHANGED <<feeds, cfgVars, pollVars, histVars, panicked, appended,
                   gate_in, gate_out, mainVars, idVars, timerVars, serveVars>>

\* the poller runs is_new_item on the guid it derived
IsNewItem(f, item) ==
    /\ pc = "known"
    /\ lookup' = [op |-> "is_new_item", feed |-> f, item |-> item,
                  id |-> item_to_guid(item, now),
                  answer |-> Answer(~is_new_item(known_items, f,
                                        item_to_guid(item, now)))]
    /\ UNCHANGED <<storeVars, cfgVars, pollVars, histVars, panicked, appended,
                   gate_in, gate_out, mainVars, idVars, timerVars, serveVars>>

NextKnown ==
    \/ \E f \in FeedNames : \E item \in KnownItems : RecordAsKnown(f, item)
    \/ \E f \in FeedNames : \E item \in KnownItems : IsKnown(f, item)
    \/ \E f \in FeedNames : \E item \in KnownItems : IsNewItem(f, item)

SpecKnown == InitKnown /\ [][NextKnown]_vars

\* ------------------------------------------- the steady-state timer
\* Config::polling_interval_seconds, in units of the clock
Period == 2

InitTimer ==
    /\ feeds = <<>>
    /\ known_items = <<>>
    /\ max_items = Capacity
    /\ global_filters = NoFilters
    /\ feed_filters = [f \in FeedNames |-> NoFilters]
    /\ feed_order = <<"tech", "news">>
    /\ pc = "timer_first"
    /\ prime = [f \in FeedNames |-> "todo"]
    /\ init_result = "none"
    /\ fi = 1
    /\ pending = <<>>
    /\ cycle = 0
    /\ now \in {0, 1}
    /\ IdleHistory
    /\ appended = <<>>
    /\ panicked = FALSE
    /\ gate_in = NoGateIn
    /\ gate_out = NoGateOut
    /\ IdleMain
    /\ IdleIdentity
    /\ IdleServe
    /\ lookup = NoLookup
    /\ deadline = now
    /\ loop_start = now
    /\ poll_starts = <<>>
    /\ poll_ends = <<>>
    /\ running = 0

\* time passes, whatever the poller is doing
TimePasses ==
    /\ pc \in {"timer_first", "timer_wait", "timer_poll"}
    /\ now < MaxTime
    /\ now' = now + 1
    /\ UNCHANGED <<storeVars, cfgVars, pc, prime, init_result, fi, pending,
                   cycle, histVars, sideVars>>

\* variant: the first tick is left for the loop
first_tick_kept(d) == d

\* start: interval.tick().await before the loop consumes the tick that
\* completes at once; the next one is due a period later
first_tick_skipped(d) == d + Period

\* start: the tick before the loop
SkipFirstTick ==
    /\ pc = "timer_first"
    /\ now >= deadline
    /\ deadline' = first_tick_skipped(deadline)
    /\ pc' = "timer_wait"
    /\ UNCHANGED <<storeVars, cfgVars, prime, init_result, fi, pending, cycle,
                   now, histVars, panicked, appended, gate_in, gate_out,
                   mainVars, idVars, serveVars, lookup, loop_start,
                   poll_starts, poll_ends, running>>

\* variant: the loop takes the next tick while poll_all_feeds is running
loop_awaits_tick_detached(p) == p \in {"timer_wait", "timer_poll"}

\* start: the loop is at interval.tick().await only after
\* poll_all_feeds().await has returned
loop_awaits_tick(p) == p = "timer_wait"

\* start: a tick of the loop completes (a missed one at once) and
\* poll_all_feeds is called
TickCompletes ==
    /\ loop_awaits_tick(pc)
    /\ now >= deadline
    /\ Len(poll_starts) < MaxPolls
    /\ deadline' = deadline + Period
    /\ poll_starts' = Append(poll_starts, now)
    /\ running' = running + 1
    /\ cycle' = cycle + 1
    /\ pc' = "timer_poll"
    /\ UNCHANGED <<storeVars, cfgVars, prime, init_result, fi, pending,
                   now, histVars, panicked, appended, gate_in, gate_out,
                   mainVars, idVars, serveVars, lookup, loop_start, poll_ends>>

\* start: poll_all_feeds().await returns, after however long it took
PollReturns ==
    /\ pc = "timer_poll"
    /\ running > 0
    /\ Len(poll_ends) < Len(poll_starts)
    /\ poll_ends' = Append(poll_ends, now)
    /\ running' = running - 1
    /\ pc' = "timer_wait"
    /\ UNCHANGED <<storeVars, cfgVars, prime, init_result, fi, pending, cycle,
                   now, histVars, panicked, appended, gate_in, gate_out,
                   mainVars, idVars, serveVars, lookup, deadline, loop_start,
                   poll_starts>>

NextTimer ==
    \/ TimePasses
    \/ SkipFirstTick
    \/ TickCompletes
    \/ PollReturns

SpecTimer == InitTimer /\ [][NextTimer]_vars

\* --------------------------------------- serve_feed against a writer
ServeItems == {i1, i2}

InitServe ==
    /\ feeds = <<>>
    /\ known_items = <<>>
    /\ max_items = Capacity
    /\ global_filters = NoFilters
    /\ feed_filters = [f \in FeedNames |-> NoFilters]
    /\ feed_order = <<"tech", "news">>
    /\ pc = "serve"
    /\ prime = [f \in FeedNames |-> "todo"]
    /\ init_result = "none"
    /\ fi = 1
    /\ pending = <<>>
    /\ cycle = 0
    /\ now = 0
    /\ IdleHistory
    /\ appended = <<>>
    /\ panicked = FALSE
    /\ gate_in = NoGateIn
    /\ gate_out = NoGateOut
    /\ IdleMain
    /\ IdleIdentity
    /\ IdleTimer
    /\ lookup = NoLookup
    /\ srv_pc = "idle"
    /\ srv_feed = ""
    /\ srv_view = NoView
    /\ srv_snap = <<>>
    /\ wr_pc = "idle"
    /\ wr_feed = ""
    /\ writes = 0

\* variant: the guard is dropped once the title is cloned
holds_read_guard_for_title(stage) == stage = "title"

\* serve_feed: the guard returned by feeds.read().await lives to the end of
\* the match, over every read of the feed and the building of the response
holds_read_guard(stage) ==
    stage \in {"title", "description", "items", "respond"}

\* the writer takes the write guard, ensures the feed and pushes the item
WriterPush(f, item) ==
    /\ pc = "serve"
    /\ wr_pc = "idle"
    /\ ~holds_read_guard(srv_pc)
    /\ writes < MaxWrites
    /\ LET fs == add_channel(feeds, f, ChannelTitle(f), None)
       IN  feeds' = [fs EXCEPT ![f].items = Append(@, item)]
    /\ wr_pc' = "pushed"
    /\ wr_feed' = f
    /\ writes' = writes + 1
    /\ UNCHANGED <<known_items, cfgVars, pollVars, histVars, panicked, appended,
                   gate_in, gate_out, mainVars, idVars, timerVars, lookup,
                   srv_pc, srv_feed, srv_view, srv_snap>>

\* the writer pops the overflow and drops the write guard
WriterEvict ==
    /\ pc = "serve"
    /\ wr_pc = "pushed"
    /\ feeds' = [feeds EXCEPT ![wr_feed].items = EvictOldest(@, max_items)]
    /\ wr_pc' = "idle"
    /\ UNCHANGED <<known_items, cfgVars, pollVars, histVars, panicked, appended,
                   gate_in, gate_out, mainVars, idVars, timerVars, lookup,
                   srv_pc, srv_feed, srv_view, srv_snap, wr_feed, writes>>

\* serve_feed: feeds.read().await returns the guard and get() looks the
\* feed up
ServeAcquire(f) ==
    /\ pc = "serve"
    /\ srv_pc = "idle"
    /\ wr_pc = "idle"
    /\ srv_feed' = f
    /\ srv_snap' = feeds
    /\ srv_view' = IF f \in DOMAIN feeds
                   THEN [NoView EXCEPT !.status = 200]
                   ELSE NotFound
    /\ srv_pc' = IF f \in DOMAIN feeds THEN "title" ELSE "respond"
    /\ UNCHANGED <<storeVars, cfgVars, pollVars, histVars, panicked, appended,
                   gate_in, gate_out, mainVars, idVars, timerVars, lookup,
                   wr_pc, wr_feed, writes>>

\* serve_feed: the title, the description and the items are cloned, one
\* after the other
ServeRead ==
    /\ pc = "serve"
    /\ srv_pc \in {"title", "description", "items"}
    /\ LET now_served == serve_feed(feeds, srv_feed)
       IN  /\ srv_pc = "title" =>
                 /\ srv_view' = [srv_view EXCEPT !.title = now_served.title]
                 /\ srv_pc' = "description"
           /\ srv_pc = "description" =>
                 /\ srv_view' = [srv_view EXCEPT
                                    !.description = now_served.description]
                 /\ srv_pc' = "items"
           /\ srv_pc = "items" =>
                 /\ srv_view' = [srv_view EXCEPT !.items = now_served.items]
                 /\ srv_pc' = "respond"
    /\ UNCHANGED <<storeVars, cfgVars, pollVars, histVars, panicked, appended,
                   gate_in, gate_out, mainVars, idVars, timerVars, lookup,
                   srv_feed, srv_snap, wr_pc, wr_feed, writes>>

\* serve_feed: the response is built and the guard is dropped
ServeRespond ==
    /\ pc = "serve"
    /\ srv_pc = "respond"
    /\ srv_pc' = "responded"
    /\ UNCHANGED <<storeVars, cfgVars, pollVars, histVars, panicked, appended,
                   gate_in, gate_out, mainVars, idVars, timerVars, lookup,
                   srv_feed, srv_view, srv_snap, wr_pc, wr_feed, writes>>

\* the next request can come
ServeDone ==
    /\ pc = "serve"
    /\ srv_pc = "responded"
    /\ srv_pc' = "idle"
    /\ srv_view' = NoView
    /\ srv_feed' = ""
    /\ srv_snap' = <<>>
    /\ UNCHANGED <<storeVars, cfgVars, pollVars, histVars, panicked, appended,
                   gate_in, gate_out, mainVars, idVars, timerVars, lookup,
                   wr_pc, wr_feed, writes>>

NextServe ==
    \/ \E f \in FeedNames : \E item \in ServeItems : WriterPush(f, item)
    \/ WriterEvict
    \/ \E f \in FeedNames : ServeAcquire(f)
    \/ ServeRead
    \/ ServeRespond
    \/ ServeDone

SpecServe == InitServe /\ [][NextServe]_vars

\* ----------------------------------- the poller after a restart
\* the snapshot the previous run left: every identity the upstream of "tech"
\* can list with a guid, a link or a title
RestartSnapshots ==
    {("tech" :> <<"g1", "g2", "l3", "t4-no-date">>) @@ ("news" :> <<>>)}

\* main: a fresh FeedStorage, load_known_items() on the snapshot, then the
\* poller task
InitRestart ==
    /\ feeds = <<>>
    /\ disk \in {JsonFile(map) : map \in RestartSnapshots}
    /\ known_items = load_seen_guids(<<>>, disk).known
    /\ max_items = Capacity
    /\ global_filters = NoFilters
    /\ feed_filters = [f \in FeedNames |->
            IF f = "tech" THEN SomeFilters(NoVec, SomeVec(<<"ads">>))
            ELSE NoFilters]
    /\ feed_order = <<"tech", "news">>
    /\ pc = "priming"
    /\ prime = [f \in FeedNames |-> "todo"]
    /\ init_result = "none"
    /\ fi = 1
    /\ pending = <<>>
    /\ cycle = 0
    /\ now = 0
    /\ IdleHistory
    /\ appended = <<>>
    /\ panicked = FALSE
    /\ gate_in = NoGateIn
    /\ gate_out = NoGateOut
    /\ IdleIdentity
    /\ IdleExtras
    /\ main_pc = "serving"
    /\ lock = "free"
    /\ io = "none"
    /\ exit_result = "running"
    /\ poller_started = TRUE
    /\ server_started = TRUE
    /\ runs = 1
    /\ trigger_known = <<>>
    /\ saved = NotSaved

SpecRestart == InitRestart /\ [][Next]_vars

\* ------------------------------ initial_fetch over many feeds
\* the feeds of a configuration with n entries
FeedName(k) == "feed" \o ToString(k)
ConfiguredFeeds(n) == [k \in 1..n |-> FeedName(k)]

\* what the fetch of one of these feeds comes back with: a failure, or a
\* channel with one item
FanOutReplies(f) ==
    {r \in FetchReplies(f) : r.kind = "send_error"
                              \/ (r.kind = "ok" /\ Len(r.items) = 1)}

InitFanOut ==
    /\ feeds = <<>>
    /\ known_items = <<>>
    /\ max_items = Capacity
    /\ global_filters = NoFilters
    /\ feed_filters = [f \in FeedNames |-> NoFilters]
    /\ feed_order \in {ConfiguredFeeds(n) : n \in 0..MaxFeeds}
    /\ pc = "priming"
    /\ prime = [f \in Elements(feed_order) |-> "todo"]
    /\ init_result = "none"
    /\ fi = 1
    /\ pending = <<>>
    /\ cycle = 0
    /\ now = 0
    /\ IdleHistory
    /\ IdleSide

NextFanOut ==
    \/ \E f \in DOMAIN prime : PrimeStart(f)
    \/ \E f \in DOMAIN prime : \E reply \in FanOutReplies(f) :
          PrimeFinish(f, reply)
    \/ InitialFetchReturn

SpecFanOut == InitFanOut /\ [][NextFanOut]_vars

\* --------------------------------- the storage calls, feed by feed
IsolationItems == {i1, i2}

InitIsolation ==
    /\ feeds = <<>>
    /\ known_items = <<>>
    /\ max_items = Capacity
    /\ global_filters = NoFilters
    /\ feed_filters = [f \in FeedNames |-> NoFilters]
    /\ feed_order = <<"tech", "news">>
    /\ pc = "isolation"
    /\ prime = [f \in FeedNames |-> "todo"]
    /\ init_result = "none"
    /\ fi = 1
    /\ pending = <<>>
    /\ cycle = 0
    /\ now = 0
    /\ IdleHistory
    /\ IdleSide

\* a caller runs add_channel and then store_filtered_item for the feed
StoreForFeed(f, item) ==
    /\ pc = "isolation"
    /\ writes < MaxWrites
    /\ writes' = writes + 1
    /\ feeds' = store_filtered_item(
                    add_channel(feeds, f, ChannelTitle(f), "About " \o f),
                    max_items, f, item)
    /\ lookup' = [op |-> "store_filtered_item", feed |-> f, item |-> item,
                  id |-> storage_item_to_guid(item).guid, answer |-> NoAnswer]
    /\ UNCHANGED <<known_items, cfgVars, pollVars, histVars, panicked,
                   appended, gate_in, gate_out, mainVars, idVars, timerVars,
                   srv_pc, srv_feed, srv_view, srv_snap, wr_pc, wr_feed>>

\* a caller runs record_as_known for the feed
RecordForFeed(f, item) ==
    /\ pc = "isolation"
    /\ LET r == record_as_known(known_items, f, item)
       IN  /\ known_items' = r.known_items
           /\ lookup' = [op |-> "record_as_known", feed |-> f, item |-> item,
                         id |-> storage_item_to_guid(item).guid,
                         answer |-> r.answer]
    /\ UNCHANGED <<feeds, cfgVars, pollVars, histVars, panicked, appended,
                   gate_in, gate_out, mainVars, idVars, timerVars, serveVars>>

\* a caller runs is_known for the feed
LookUpForFeed(f, item) ==
    /\ pc = "isolation"
    /\ LET r == is_known(known_items, f, item)
       IN  /\ known_items' = r.known_items
           /\ lookup' = [op |-> "is_known", feed |-> f, item |-> item,
                         id |-> storage_item_to_guid(item).guid,
                         answer |-> r.answer]
    /\ UNCHANGED <<feeds, cfgVars, pollVars, histVars, panicked, appended,
                   gate_in, gate_out, mainVars, idVars, timerVars, serveVars>>

NextIsolation ==
    \/ \E f \in FeedNames : \E item \in IsolationItems : StoreForFeed(f, item)
    \/ \E f \in FeedNames : \E item \in IsolationItems : RecordForFeed(f, item)
    \/ \E f \in FeedNames : \E item \in IsolationItems : LookUpForFeed(f, item)

SpecIsolation == InitIsolation /\ [][NextIsolation]_vars

\* ---------------------------------------------------------------- claims
StoredItems(f) == feeds[f].items

LastN(q, n) == SubSeq(q, Len(q) - n + 1, Len(q))

C2_RejectedStaysKnown ==
    [][\A r \in rejected :
          cycle' > r[3] =>
              ~is_new_item(known_items', r[1], item_to_guid(r[2], now'))]_vars

\* C3: every step that puts an item into a feed's stored sequence is a step in
\* which the decision gate accepted that item for that feed (priming included).
C3_OnlyAcceptedStored ==
    [][\A f \in DOMAIN feeds' :
          (IF f \in DOMAIN feeds
              THEN feeds'[f].items # feeds[f].items
              ELSE feeds'[f].items # <<>>)
          => /\ last'.op = "decide"
             /\ last'.accept
             /\ last'.feed = f
             /\ last'.item = <<feeds'[f].items[Len(feeds'[f].items)]>>]_vars

\* C4: once more than max_items items were appended to a feed one by one, the
\* feed holds exactly the last max_items of them, oldest first.
C4_BoundedRetention ==
    \A f \in DOMAIN feeds :
        Len(appended[f]) > max_items
            => StoredItems(f) = LastN(appended[f], max_items)

\* C4 witness: capacity 2, four appends, the two newest survive in order.
C4_Witness ==
    /\ max_items = 2
    /\ "tech" \in DOMAIN feeds
    /\ appended["tech"] = <<i1, i2, i2, i1>>
    /\ StoredItems("tech") = <<i2, i1>>

\* C5: every feed's stored sequence has at most max_items items.
C5_StoredLengthBounded ==
    \A f \in DOMAIN feeds : Len(StoredItems(f)) <= max_items

\* C5 witness: "tech" is full after more items were stored than it can hold.
C5_Witness ==
    /\ "tech" \in DOMAIN feeds
    /\ "tech" \in DOMAIN known_items
    /\ Len(StoredItems("tech")) = max_items
    /\ Cardinality(known_items["tech"]) > max_items

\* the fixed capacity K of a feed's known-item record
KnownCapacity == 3

\* C6: every feed's known-item record holds at most KnownCapacity identifiers.
C6_KnownLengthBounded ==
    \A f \in DOMAIN known_items : Cardinality(known_items[f]) <= KnownCapacity

\* C7: in the "tech" scenario the first cycle ends with <<i1, i3>> stored and
\* i1, i2, i3 known, the second cycle does not ask the gate about i2 and ends
\* with <<i3, i4>> stored.
C7_Scenario ==
    /\ scen = "c1_done" =>
          /\ StoredItems("tech") = <<i1, i3>>
          /\ \A x \in {i1, i2, i3} :
                ~is_new_item(known_items, "tech", item_to_guid(x, now))
    /\ scen # "c2_i2_decided"
    /\ scen = "c2_done" => StoredItems("tech") = <<i3, i4>>

RulesEmpty ==
    /\ accept_topics(gate_in.global, gate_in.local) = <<>>
    /\ reject_topics(gate_in.global, gate_in.local) = <<>>

\* C8: with a non-empty rule set, a decision call that fails (transport,
\* timeout, status, missing or malformed reply) yields accept.
C8_FailOpen ==
    (pc = "gate_done" /\ ~RulesEmpty /\ gate_in.reply.kind # "ok")
        => /\ gate_out.should_accept_item.accept
           /\ gate_out.accepts.accept

\* C8 witness: reject rules are set, the call timed out, the item is accepted.
C8_Witness ==
    /\ pc = "gate_done"
    /\ gate_in.global = NoFilters
    /\ gate_in.local = SomeFilters(NoVec, SomeVec(<<"ads">>))
    /\ gate_in.reply.kind = "timeout"
    /\ gate_out.should_accept_item = [accept |-> TRUE, called |-> TRUE]

\* C9: with all merged accept and reject lists empty the item is accepted and
\* no remote decision call is made.
C9_FastPath ==
    (pc = "gate_done" /\ RulesEmpty)
        => /\ gate_out.should_accept_item = [accept |-> TRUE, called |-> FALSE]
           /\ gate_out.accepts = [accept |-> TRUE, called |-> FALSE]

\* C9 witness: filters are present but their lists are empty, and the reply
\* would have been a rejection.
C9_Witness ==
    /\ pc = "gate_done"
    /\ gate_in.global = SomeFilters(SomeVec(<<>>), NoVec)
    /\ gate_in.local = SomeFilters(NoVec, SomeVec(<<>>))
    /\ gate_in.reply = [kind |-> "ok", accept |-> FALSE, reject |-> TRUE]
    /\ gate_out.should_accept_item = [accept |-> TRUE, called |-> FALSE]

\* C10: a fetch failure does not end the cycle: when a cycle is over every
\* configured feed was fetched in it, and after a failure the poller is still
\* in its loop.
C10_FetchFailureContained ==
    /\ (pc = "tick" /\ cycle >= 1) => attempted = FeedNames
    /\ failed # {} => pc \in {"fetch", "items", "tick"}

\* C10 witness: the first feed's fetch failed, the second feed's items were
\* then processed in the same cycle, and a later cycle is still to come.
C10_Witness ==
    /\ pc = "tick"
    /\ cycle >= 1
    /\ cycle < MaxCycles
    /\ failed = {feed_order[1]}
    /\ last.op \in {"decide", "skip"}
    /\ last.feed = feed_order[2]

\* the known-item map a fresh instance holds after loading the file
Snapshot == load_seen_guids(<<>>, disk).known

\* every guid of the map `known` is known in the file's snapshot
InSnapshot(known) ==
    \A f \in DOMAIN known :
        \A g \in known[f] : ~is_new_item(Snapshot, f, g)

\* C11: main is never inside a read or a write of the known-items file while
\* it holds the exclusive (write) lock of the storage.
C11_NoIOUnderExclusiveLock ==
    ~(lock = "write" /\ io \in SuspensionPoints)

ProbeGuids == {"g1", "g2", "g3"}

\* C12: a process that loaded the file a complete save wrote answers
\* is_new_item, for every feed and guid, as the saved map did.
C12_RoundTrip ==
    (main_pc = "loaded" /\ saved.valid)
        => \A f \in FeedNames : \A g \in ProbeGuids :
              is_new_item(known_items, f, g) = is_new_item(saved.known, f, g)

\* C12 witness: {tech: {g1, g2}, news: {}} was saved with tech's array in the
\* order g2, g1, and the next process loaded it: g1 is known, g3 is not.
C12_Witness ==
    /\ main_pc = "loaded"
    /\ runs = 2
    /\ saved.valid
    /\ saved.known = ("tech" :> {"g1", "g2"}) @@ ("news" :> {})
    /\ disk = JsonFile(("tech" :> <<"g2", "g1">>) @@ ("news" :> <<>>))
    /\ ~is_new_item(known_items, "tech", "g1")
    /\ is_new_item(known_items, "tech", "g3")

\* C13: with no known-items file the load succeeds: main does not return a
\* load error, and after the load the known-item map is empty.
C13_AbsentFileLoadsEmpty ==
    /\ (disk.kind = "absent" /\ main_pc = "loaded") => known_items = <<>>
    /\ (disk.kind = "absent" /\ main_pc \notin {"start", "loading"})
          => exit_result \notin {"io_error", "deserialize_error"}

\* C13 witness: there is no file, the load is over and both tasks run.
C13_Witness ==
    /\ disk = AbsentFile
    /\ main_pc = "serving"
    /\ poller_started
    /\ server_started
    /\ exit_result = "running"

\* C14: when the file found at startup does not parse, main returns the
\* deserialization error: neither the poller nor the server is started and
\* the known-item map stays as constructed.
C14_MalformedFileIsFatal ==
    (/\ disk.kind = "malformed"
     /\ main_pc \notin {"start", "loading"}
     /\ exit_result \notin {"save_error", "killed"})
        => /\ main_pc = "exited"
           /\ exit_result = "deserialize_error"
           /\ ~poller_started
           /\ ~server_started
           /\ known_items = <<>>

\* C14 witness: main has returned the deserialization error.
C14_Witness ==
    /\ disk = MalformedFile
    /\ main_pc = "exited"
    /\ exit_result = "deserialize_error"
    /\ ~poller_started

\* C15: when a steady-state cycle is over, every guid of the known-item map
\* is in the file's snapshot.
C15_PersistedAfterCycle ==
    (pc = "tick" /\ cycle >= 1) => InSnapshot(known_items)

\* C16: a failed save of the known-items file does not make main return an
\* error.
C16_SaveFailureNotFatal ==
    exit_result # "save_error"

C18_IdentityTotal ==
    \A k \in 1..Len(id_out) : id_out[k].feed.ok /\ id_out[k].storage.ok

\* the first applicable field of the chain guid, link, title-date
FirstApplicable(item) ==
    IF item.guid # None THEN item.guid
    ELSE IF item.link # None THEN item.link
    ELSE item.title \o "-" \o
         (IF item.pub_date # None THEN item.pub_date ELSE "no-date")

C20_AddChannelFirstWriteWins ==
    [][last'.op = "add_channel" =>
          IF last'.feed \in DOMAIN feeds
          THEN feeds' = feeds
          ELSE /\ DOMAIN feeds' = DOMAIN feeds \cup {last'.feed}
               /\ feeds'[last'.feed] =
                     StoredFeed(last'.title, "About " \o last'.title, <<>>)
               /\ \A g \in DOMAIN feeds : feeds'[g] = feeds[g]]_vars

\* C20 witness: add_channel was called with "New title" on a feed created
\* with "Old title" that holds items, and the feed kept its title and items.
C20_Witness ==
    /\ last.op = "add_channel"
    /\ last.feed = "tech"
    /\ last.title = "New title"
    /\ "tech" \in DOMAIN feeds
    /\ feeds["tech"].title = "Old title"
    /\ feeds["tech"].description = "About Old title"
    /\ feeds["tech"].items # <<>>

\* C22: when initial_fetch has returned, every configured feed was fetched,
\* and every feed whose fetch succeeded is stored, whatever became of the
\* other feeds' fetches.
C22_PrimingNotAborted ==
    pc # "priming"
        => \A f \in FeedNames :
              /\ prime[f] \in {"ok", "err"}
              /\ prime[f] = "ok" => f \in DOMAIN feeds

\* C22 witness: the fetch of "tech" failed, initial_fetch returned Err, and
\* "news" was fetched and stored with its item.
C22_Witness ==
    /\ pc = "start"
    /\ init_result = "err"
    /\ prime["tech"] = "err"
    /\ prime["news"] = "ok"
    /\ "news" \in DOMAIN feeds
    /\ StoredItems("news") = <<i5>>
    /\ "tech" \notin DOMAIN feeds

\* C23: when the rule set is not empty and the decision call succeeds, the
\* item is rejected exactly when the reply has reject = true and accept =
\* false; a reply with both true accepts.
C23_AcceptUnlessOnlyReject ==
    (pc = "gate_done" /\ ~RulesEmpty /\ gate_in.reply.kind = "ok")
        => /\ gate_out.should_accept_item.called
           /\ gate_out.should_accept_item.accept
                 = ~(gate_in.reply.reject /\ ~gate_in.reply.accept)
           /\ gate_out.accepts.called
           /\ gate_out.accepts.accept
                 = ~(gate_in.reply.reject /\ ~gate_in.reply.accept)

\* C23 witness: accept and reject rules are set, the reply has both fields
\* true, and both gates accept.
C23_Witness ==
    /\ pc = "gate_done"
    /\ gate_in.global = SomeFilters(SomeVec(<<"rust">>), SomeVec(<<"ads">>))
    /\ gate_in.local = SomeFilters(SomeVec(<<"rust">>), SomeVec(<<"ads">>))
    /\ gate_in.reply = [kind |-> "ok", accept |-> TRUE, reject |-> TRUE]
    /\ gate_out.should_accept_item = [accept |-> TRUE, called |-> TRUE]
    /\ gate_out.accepts = [accept |-> TRUE, called |-> TRUE]

C25_IdentityAgrees ==
    \A j \in 1..Len(id_out) :
        /\ id_out[j].storage = id_out[j].feed
        /\ \A k \in 1..Len(id_out) : id_out[j].feed = id_out[k].feed

\* the items the current pass has stored, as far as the feed still holds them
PassStored(f) ==
    LastN(StoredItems(f),
          IF pass_count < Len(StoredItems(f)) THEN pass_count
          ELSE Len(StoredItems(f)))

\* C28: the items one pass has stored are in the feed in the order of the
\* fetched list, and before every item of the list still to be processed.
C28_FetchOrder ==
    (last.op \in {"decide", "skip"} /\ last.feed \in DOMAIN feeds)
        => LET q == PassStored(last.feed)
           IN  /\ \A j, k \in 1..Len(q) : j < k => Pos(q[j]) < Pos(q[k])
               /\ pc = "items" =>
                     \A j \in 1..Len(q) : \A k \in 1..Len(pending) :
                         Pos(q[j]) < Pos(pending[k])

\* C28 witness: a pass over <<i1, i2, i3>> accepted i1 and i3, rejected i2,
\* and the feed holds <<i1, i3>>.
C28_Witness ==
    /\ scen = "c1_done"
    /\ pass_count = 2
    /\ last.op = "decide"
    /\ last.feed = "tech"
    /\ StoredItems("tech") = <<i1, i3>>

\* C30: a step in which a fetch fails changes neither the stored feeds nor
\* the known items, and a feed whose priming fetch failed and that no cycle
\* has fetched yet is served as a feed with no items.
C30_FailedFetchServedEmpty ==
    [][/\ last'.op \in {"fetch_fail", "prime_fail"}
          => UNCHANGED <<feeds, known_items>>
       /\ \A f \in FeedNames :
             (prime'[f] = "err" /\ cycle' = 0 /\ pc' # "priming")
                 => /\ serve_feed(feeds', f).status = 200
                    /\ serve_feed(feeds', f).items = <<>>]_vars

\* C21: a lookup (is_known, is_new_item) changes neither the stored feeds
\* nor the known items, and it answers "known" exactly when the feed has a
\* record and the identifier is in it.
C21_IsKnownPure ==
    [][lookup'.op \in Lookups
          => /\ UNCHANGED <<feeds, known_items>>
             /\ lookup'.answer.ok
                   => lookup'.answer.known
                        = (/\ lookup'.feed \in DOMAIN known_items
                           /\ lookup'.id \in known_items[lookup'.feed])]_vars

\* C21 witness: is_known for i1 in "news" answered false while "news" has no
\* record and the record of "tech" holds the identifier of i1.
C21_Witness ==
    /\ lookup.op = "is_known"
    /\ lookup.feed = "news"
    /\ lookup.item = i1
    /\ lookup.answer = Answer(FALSE)
    /\ "news" \notin DOMAIN known_items
    /\ "tech" \in DOMAIN known_items
    /\ "g1" \in known_items["tech"]

\* C26: at most one poll_all_feeds call is running, and every call after
\* the first begins no earlier than the previous one returned.
C26_CyclesDoNotOverlap ==
    /\ running <= 1
    /\ \A k \in 2..Len(poll_starts) :
          /\ Len(poll_ends) >= k - 1
          /\ poll_ends[k - 1] <= poll_starts[k]

\* C26 witness: a cycle lasted longer than the interval and the next one
\* began when it had returned.
C26_Witness ==
    /\ Len(poll_starts) >= 2
    /\ Len(poll_ends) >= 1
    /\ poll_ends[1] - poll_starts[1] > Period
    /\ poll_starts[2] >= poll_ends[1]

\* C27: no poll_all_feeds call begins before the tick ahead of the loop is
\* consumed, and none begins earlier than one interval after the loop
\* started.
C27_FirstTickSkipped ==
    /\ pc = "timer_first" => poll_starts = <<>>
    /\ \A k \in 1..Len(poll_starts) : poll_starts[k] >= loop_start + Period

\* C27 witness: the first cycle began exactly one interval after the loop
\* started.
C27_Witness ==
    /\ Len(poll_starts) >= 1
    /\ poll_starts[1] = loop_start + Period

\* C29: the response of serve_feed is the rendering of the one state of the
\* stored feeds that the request found when it took the read guard, a state
\* in which no feed holds more than max_items items.
C29_ConsistentSnapshot ==
    /\ srv_pc \in {"title", "description", "items", "respond", "responded"}
          => \A f \in DOMAIN srv_snap : Len(srv_snap[f].items) <= max_items
    /\ srv_pc \in {"respond", "responded"}
          => srv_view = serve_feed(srv_snap, srv_feed)

\* C29 witness: a response for "tech" rendered <<i1, i2>> while the writer,
\* after the guard was dropped, is between its push and its eviction.
C29_Witness ==
    /\ srv_pc = "responded"
    /\ srv_feed = "tech"
    /\ srv_view.status = 200
    /\ srv_view.items = <<i1, i2>>
    /\ wr_pc = "pushed"
    /\ wr_feed = "tech"
    /\ Len(feeds["tech"].items) > max_items

\* C31: after a restart on a loaded snapshot, the first successful poll of
\* a feed leaves the feed stored: the priming fetch does, and, when the
\* priming fetch failed, so does the pass of the first cycle, which ends
\* with its last item in the feed when the snapshot lists that item.
C31_RebuiltByPolling ==
    [][\A f \in FeedNames :
          /\ (prime[f] = "fetching" /\ prime'[f] = "ok")
                => f \in DOMAIN feeds'
          /\ (/\ pc = "items"
              /\ feed_order[fi] = f
              /\ prime[f] = "err"
              /\ cycle = 1
              /\ Len(pending) = 1
              /\ disk.kind = "json"
              /\ f \in DOMAIN disk.map
              /\ item_to_guid(pending[1], now) \in Elements(disk.map[f])
              /\ pending' = <<>>)
                => /\ f \in DOMAIN feeds'
                   /\ pending[1] \in Elements(feeds'[f].items)]_vars

\* C32: whenever the known-items file changes, by a save that returns or by
\* one during which the process is killed, the file is afterwards a
\* complete serialisation of the known-item map.
C32_SaveAtomic ==
    [][disk' # disk
          => /\ disk'.kind = "json"
             /\ disk'.map \in to_string(known_items)]_vars

\* C33: while initial_fetch runs, no more than FanOut fetches are in flight,
\* whatever the number of configured feeds.
C33_BoundedFanOut ==
    Cardinality(InFlight) <= FanOut

\* C33 witness: more feeds are configured than the limit, the limit is
\* reached and a feed is waiting for its turn.
C33_Witness ==
    /\ pc = "priming"
    /\ Len(feed_order) > FanOut
    /\ Cardinality(InFlight) = FanOut
    /\ \E f \in DOMAIN prime : prime[f] = "todo"

\* C34: no step takes an identity out of a feed's record, so a lookup of a
\* recorded identity answers "known" ever after; and record_as_known of an
\* identity already recorded returns false and changes nothing.
C34_KnownMonotone ==
    [][/\ \A f \in DOMAIN known_items :
             /\ f \in DOMAIN known_items'
             /\ known_items[f] \subseteq known_items'[f]
       /\ (/\ lookup'.op \in Lookups
           /\ lookup'.answer.ok
           /\ lookup'.feed \in DOMAIN known_items
           /\ lookup'.id \in known_items[lookup'.feed])
             => lookup'.answer.known
       /\ (/\ lookup'.op = "record_as_known"
           /\ lookup'.answer.ok
           /\ lookup'.feed \in DOMAIN known_items
           /\ lookup'.id \in known_items[lookup'.feed])
             => /\ ~lookup'.answer.known
                /\ UNCHANGED <<feeds, known_items>>]_vars

\* C34 witness: record_as_known of g1 in "tech" returned false, g1 and g2
\* both being in the record.
C34_Witness ==
    /\ lookup.op = "record_as_known"
    /\ lookup.feed = "tech"
    /\ lookup.id = "g1"
    /\ lookup.answer = Answer(FALSE)
    /\ "tech" \in DOMAIN known_items
    /\ {"g1", "g2"} \subseteq known_items["tech"]

FeedPart(fs, known, f) ==
    [stored |-> f \in DOMAIN fs,
     feed |-> IF f \in DOMAIN fs THEN fs[f] ELSE StoredFeed(None, None, <<>>),
     recorded |-> f \in DOMAIN known,
     known |-> IF f \in DOMAIN known THEN known[f] ELSE {}]

\* C36: a call for one feed (append with eviction, record, lookup) leaves
\* what the storage holds for every other feed as it was, and its answer
\* depends on the record of its own feed only.
C36_FeedsIsolated ==
    [][\A a \in FeedNames :
          lookup'.feed = a
             => /\ \A b \in FeedNames \ {a} :
                      FeedPart(feeds', known_items', b)
                          = FeedPart(feeds, known_items, b)
                /\ (lookup'.op = "record_as_known" /\ lookup'.answer.ok)
                      => lookup'.answer.known
                            = (lookup'.id
                                  \notin FeedPart(feeds, known_items, a).known)
                /\ (lookup'.op = "is_known" /\ lookup'.answer.ok)
                      => lookup'.answer.known
                            = (lookup'.id
                                  \in FeedPart(feeds, known_items, a).known)]_vars

\* C36 witness: g1 was recorded for "news" as new while the record of "tech"
\* already held it and "tech" was full with i1 stored.
C36_Witness ==
    /\ lookup.op = "record_as_known"
    /\ lookup.feed = "news"
    /\ lookup.id = "g1"
    /\ lookup.answer = Answer(TRUE)
    /\ "tech" \in DOMAIN known_items
    /\ "g1" \in known_items["tech"]
    /\ "tech" \in DOMAIN feeds
    /\ Len(StoredItems("tech")) = max_items
    /\ i1 \in Elements(StoredItems("tech"))

\* C37: initial_fetch has not returned while a feed is still to be fetched
\* or is being fetched; when it has returned, every successfully fetched
\* feed is stored with what was fetched, and the result is Err exactly when
\* the fetch of some feed failed.
C37_InitialFetchResult ==
    /\ init_result = "none" <=> pc = "priming"
    /\ init_result # "none"
          => /\ \A f \in DOMAIN prime : prime[f] \in {"ok", "err"}
             /\ \A f \in DOMAIN prime :
                   prime[f] = "ok"
                      => /\ f \in DOMAIN feeds
                         /\ StoredItems(f) # <<>>
                         /\ f \in DOMAIN known_items
             /\ (init_result = "err")
                   = (\E f \in DOMAIN prime : prime[f] = "err")
             /\ (init_result = "ok")
                   = (\A f \in DOMAIN prime : prime[f] = "ok")

\* C37 witness: of more feeds than the fan-out limit one failed and the
\* others are stored; initial_fetch returned Err.
C37_Witness ==
    /\ init_result = "err"
    /\ Len(feed_order) > FanOut
    /\ Cardinality({f \in DOMAIN prime : prime[f] = "err"}) = 1
    /\ Cardinality(DOMAIN feeds) = Len(feed_order) - 1

====
